---- MODULE Spec2Model ----
(***************************************************************************)
(* multi-writer: one prompt fanned out to several chat-completion models.  *)
(* The model follows frontend/src/components/ai-elements/prompt-input/     *)
(* PromptInput.vue (the multi-panel application component): the reactive   *)
(* refs are the variables, every handler and every resumption of an async  *)
(* callback after an await is one action (JavaScript runs each of them to  *)
(* completion on the single event loop).                                   *)
(*                                                                         *)
(* Texts are sequences of fragments (a fragment stands for a run of        *)
(* characters), so string concatenation is \o and "" is << >>.             *)
(***************************************************************************)
EXTENDS Integers, Sequences, FiniteSets, TLC

VARIABLES
    prompt,           \* ref('')                        global prompt text
    modelPrompts,     \* ref<Record<string,string>>     per-model reply text
    availableModels,  \* ref<Model[]>                   catalog (ids)
    selectedModels,   \* ref<string[]>                  selection, in toggle order
    messages,         \* ref<ChatMessage[]>             the conversation log
    isModelLoading,   \* ref<Record<string,boolean>>    per-model busy flag
    exchanges,        \* the async callbacks of sendPrompt, in creation order
    catalogPc,        \* position of the fetchModels() call made by onMounted
    typed,            \* number of input events so far (bounded)
    reads,            \* number of chunks delivered so far (bounded)
    rejected          \* TRUE when the last step was a sendPrompt call that returned early

vars == <<prompt, modelPrompts, availableModels, selectedModels, messages,
          isModelLoading, exchanges, catalogPc, typed, reads, rejected>>

-----------------------------------------------------------------------------
(* Bounds of the exploration *)

MaxTurns == 4      \* sendPrompt is not explored once the log would exceed this
MaxReads == 1      \* chunks delivered to all exchanges together
MaxClock == 1      \* Date.now() ranges over 0..MaxClock
MaxTyped == 2      \* input events
MaxStreamReads == 2  \* chunks delivered where the stream is followed further
MaxParts == 3      \* parts a model id is composed of where names are derived

-----------------------------------------------------------------------------
(* Values *)

Models == {"A", "B", "C"}

Undefined == "undefined"          \* an unset string field, or no argument
NoTargets == <<"undefined">>      \* targetModels: undefined
NoText == <<"undefined">>         \* modelPrompts[m]: undefined

Blank == " "                      \* a run of white space
PromptTexts == {<< >>, <<Blank>>, <<"Hi">>}
ReplyTexts == {<<"Re">>}

\* data.data of the catalog response, when it can be read: nothing, or a list
Catalogs == {<< >>, <<"A", "B">>}
WideCatalogs == {<<"A", "B", "C">>}

FetchErrors == {"Status: 500", "No reader available"}
ReadError == "network error"

Range(s) == {s[i] : i \in 1..Len(s)}

-----------------------------------------------------------------------------
(* String helpers *)

RECURSIVE TrimStart(_)
TrimStart(s) ==
    IF s # << >> /\ Head(s) = Blank THEN TrimStart(Tail(s)) ELSE s

RECURSIVE TrimEnd(_)
TrimEnd(s) ==
    IF s # << >> /\ s[Len(s)] = Blank THEN TrimEnd(SubSeq(s, 1, Len(s) - 1)) ELSE s

\* String.prototype.trim
Trim(s) == TrimEnd(TrimStart(s))

\* modelPrompts.value[id] || ''
OrEmpty(t) == IF t = NoText THEN << >> ELSE t

-----------------------------------------------------------------------------
(* Turn ids.  Date.now().toString() is the pair <<t, -1>>, `${Date.now()}-${idx}` *)
(* the pair <<t, idx>>: the two formats never produce the same string, and two    *)
(* strings of one format are equal exactly when their parts are.                  *)

UserId(t) == <<t, -1>>

AssistantId(t, idx) == <<t, idx>>

\* The last value Date.now() returned (the id of the last Turn of the log holds it)
LastStamp == IF messages = << >> THEN 0 ELSE messages[Len(messages)].id[1]

\* What n successive calls of Date.now() can return: the clock does not run
\* backwards, and a call returns the millisecond of the call before it or a later
\* one (only whether two stamps are equal is ever observed, so the next one stands
\* for every later one).
Stamps(n) ==
    {ts \in [1..n -> LastStamp..MaxClock] :
        /\ ts[1] <= LastStamp + 1
        /\ \A k \in 1..(n - 1) : ts[k] <= ts[k + 1] /\ ts[k + 1] <= ts[k] + 1}

-----------------------------------------------------------------------------
(* The conversation log *)

\* A faulty variant: a reply to one model also carries the selection
UserMessageMutBoth(t, currentPrompt, resolvedTargetId, selection) ==
    [id |-> UserId(t), role |-> "user", content |-> currentPrompt,
     model |-> resolvedTargetId, targetModels |-> selection,
     loading |-> FALSE, error |-> Undefined]

\* lines 157-163.  loading and error are left out by the code (undefined); only
\* their truthiness is ever read, so they are FALSE and Undefined here.
UserMessage(t, currentPrompt, resolvedTargetId, selection) ==
    [id |-> UserId(t), role |-> "user", content |-> currentPrompt,
     model |-> resolvedTargetId,
     targetModels |-> IF resolvedTargetId = Undefined THEN selection ELSE NoTargets,
     loading |-> FALSE, error |-> Undefined]

\* A faulty variant: a placeholder that is not loading
AssistantMessageMutIdle(t, idx, model) ==
    [id |-> AssistantId(t, idx), role |-> "assistant", content |-> << >>,
     model |-> model, targetModels |-> NoTargets,
     loading |-> FALSE, error |-> Undefined]

\* lines 173-179
AssistantMessage(t, idx, model) ==
    [id |-> AssistantId(t, idx), role |-> "assistant", content |-> << >>,
     model |-> model, targetModels |-> NoTargets,
     loading |-> TRUE, error |-> Undefined]

\* A faulty variant: a placeholder for the first target only
AssistantMessagesMutFirstOnly(ts, activeModels) ==
    <<AssistantMessage(ts[1], 0, activeModels[1])>>

\* A faulty variant: the placeholders in the reverse of the target order
AssistantMessagesMutReversed(ts, activeModels) ==
    [k \in 1..Len(activeModels) |->
        AssistantMessage(ts[k], k - 1, activeModels[Len(activeModels) + 1 - k])]

\* activeModels.map((model, idx) => ...), ts[k] being what Date.now() returns in
\* the k-th call of the callback
AssistantMessages(ts, activeModels) ==
    [k \in 1..Len(activeModels) |-> AssistantMessage(ts[k], k - 1, activeModels[k])]

\* A faulty variant: a global Turn follows the live selection, not its snapshot
MatchesMutBySelection(msg, modelId) ==
    IF msg.role = "assistant" THEN msg.model = modelId
    ELSE IF msg.role = "user" THEN
        IF msg.model # Undefined THEN msg.model = modelId
        ELSE modelId \in Range(selectedModels)
    ELSE FALSE

\* A faulty variant: a global Turn is shown to every model
MatchesMutIgnoreTargets(msg, modelId) ==
    IF msg.role = "assistant" THEN msg.model = modelId
    ELSE IF msg.role = "user" THEN
        IF msg.model # Undefined THEN msg.model = modelId
        ELSE TRUE
    ELSE FALSE

\* A faulty variant: an assistant Turn is shown to every model
MatchesMutNoAuthorCheck(msg, modelId) ==
    IF msg.role = "assistant" THEN TRUE
    ELSE IF msg.role = "user" THEN
        IF msg.model # Undefined THEN msg.model = modelId
        ELSE IF msg.targetModels # NoTargets THEN modelId \in Range(msg.targetModels)
        ELSE TRUE
    ELSE FALSE

\* The filter predicate of getHistoryForModelDisplay, lines 272-280
Matches(msg, modelId) ==
    IF msg.role = "assistant" THEN msg.model = modelId
    ELSE IF msg.role = "user" THEN
        IF msg.model # Undefined THEN msg.model = modelId
        ELSE IF msg.targetModels # NoTargets THEN modelId \in Range(msg.targetModels)
        ELSE TRUE
    ELSE FALSE

\* Array.prototype.filter over a log
RECURSIVE FilterFor(_, _)
FilterFor(log, modelId) ==
    IF log = << >> THEN << >>
    ELSE IF Matches(Head(log), modelId)
         THEN <<Head(log)>> \o FilterFor(Tail(log), modelId)
         ELSE FilterFor(Tail(log), modelId)

getHistoryForModelDisplay(modelId) == FilterFor(messages, modelId)

\* The filter predicate of the history sent upstream, lines 185-193
HistoryKeeps(m, msg) ==
    IF m.id = msg.id THEN FALSE
    ELSE IF m.role = "assistant" THEN m.model = msg.model
    ELSE IF m.role = "user" THEN
        IF m.model # Undefined THEN m.model = msg.model
        ELSE IF m.targetModels # NoTargets THEN msg.model \in Range(m.targetModels)
        ELSE TRUE
    ELSE FALSE

\* lines 185-194: filter, then map to {role, content}
RECURSIVE History(_, _)
History(log, msg) ==
    IF log = << >> THEN << >>
    ELSE IF HistoryKeeps(Head(log), msg)
         THEN <<[role |-> Head(log).role, content |-> Head(log).content]>>
              \o History(Tail(log), msg)
         ELSE History(Tail(log), msg)

\* messages.value.findIndex(m => m.id === id); 0 stands for -1
RECURSIVE FindFrom(_, _, _)
FindFrom(log, id, i) ==
    IF i > Len(log) THEN 0
    ELSE IF log[i].id = id THEN i
    ELSE FindFrom(log, id, i + 1)

findIndex(log, id) == FindFrom(log, id, 1)

-----------------------------------------------------------------------------
(* Initial state: the component is set up and onMounted has called fetchModels *)

Init ==
    /\ prompt = << >>
    /\ modelPrompts = [m \in Models |-> NoText]
    /\ availableModels = << >>
    /\ selectedModels = << >>
    /\ messages = << >>
    /\ isModelLoading = [m \in Models |-> FALSE]
    /\ exchanges = << >>
    /\ catalogPc = "pending"
    /\ typed = 0
    /\ reads = 0
    /\ rejected = FALSE

-----------------------------------------------------------------------------
(* Model catalog and selection *)

\* A faulty variant: the selection is not defaulted to the list
FetchModelsOkMutNoDefault(list) ==
    /\ catalogPc = "pending"
    /\ catalogPc' = "done"
    /\ availableModels' = list
    /\ rejected' = FALSE
    /\ UNCHANGED <<prompt, modelPrompts, selectedModels, messages, isModelLoading,
                   exchanges, typed, reads>>

\* fetchModels, lines 136-140: the response arrived and parsed; list is data.data || []
FetchModelsOk(list) ==
    /\ catalogPc = "pending"
    /\ catalogPc' = "done"
    /\ availableModels' = list
    /\ selectedModels' = IF Len(selectedModels) = 0 THEN list ELSE selectedModels
    /\ rejected' = FALSE
    /\ UNCHANGED <<prompt, modelPrompts, messages, isModelLoading, exchanges, typed, reads>>

\* fetchModels, lines 141-143: fetch or res.json() rejected; only console.error
FetchModelsFail ==
    /\ catalogPc = "pending"
    /\ catalogPc' = "failed"
    /\ rejected' = FALSE
    /\ UNCHANGED <<prompt, modelPrompts, availableModels, selectedModels, messages,
                   isModelLoading, exchanges, typed, reads>>

\* current.filter(m => m !== modelId)
Without(s, modelId) == SelectSeq(s, LAMBDA m : m # modelId)

\* lines 333-340
toggleModel(modelId) ==
    /\ selectedModels' = IF modelId \in Range(selectedModels)
                         THEN Without(selectedModels, modelId)
                         ELSE Append(selectedModels, modelId)
    /\ rejected' = FALSE
    /\ UNCHANGED <<prompt, modelPrompts, availableModels, messages, isModelLoading,
                   exchanges, catalogPc, typed, reads>>

\* v-model="prompt", line 528
TypePrompt(text) ==
    /\ typed < MaxTyped
    /\ text # prompt
    /\ prompt' = text
    /\ typed' = typed + 1
    /\ rejected' = FALSE
    /\ UNCHANGED <<modelPrompts, availableModels, selectedModels, messages,
                   isModelLoading, exchanges, catalogPc, reads>>

\* v-model="modelPrompts[modelId]", line 498
TypeReply(modelId, text) ==
    /\ typed < MaxTyped
    /\ text # modelPrompts[modelId]
    /\ modelPrompts' = [modelPrompts EXCEPT ![modelId] = text]
    /\ typed' = typed + 1
    /\ rejected' = FALSE
    /\ UNCHANGED <<prompt, availableModels, selectedModels, messages,
                   isModelLoading, exchanges, catalogPc, reads>>

-----------------------------------------------------------------------------
(* Fan-out dispatcher: sendPrompt, lines 146-268 *)

\* A faulty variant: the text is not trimmed before it is tested
RejectsMutNoTrim(currentPrompt, activeModels) ==
    currentPrompt = << >> \/ Len(activeModels) = 0

\* the two early returns, lines 152 and 155
Rejects(currentPrompt, activeModels) ==
    Trim(currentPrompt) = << >> \/ Len(activeModels) = 0

\* A faulty variant: the busy flags are not set
MarkBusyMutSkip(busy, activeModels) == busy

\* lines 169-171
MarkBusy(busy, activeModels) ==
    [m \in Models |-> IF m \in Range(activeModels) THEN TRUE ELSE busy[m]]

\* A faulty variant: every reply text is emptied
ClearReplyMutAll(texts, modelId) == [m \in Models |-> << >>]

\* line 167
ClearReply(texts, modelId) == [texts EXCEPT ![modelId] = << >>]

\* One callback of assistantMessages.forEach up to its first await (lines 183-208):
\* the history is filtered and fetch() is called.  at is the index of msg in the log;
\* log is the log every callback reads, line 181 having pushed all the placeholders
\* before forEach (line 183) calls the first callback.
\* Four fields only record what happened, for the properties below: issued is what
\* the log and the busy flags were when fetch() was called, chunks the chunks the
\* transport delivered so far, sent the delta texts of the whole lines in them, clean
\* whether every chunk so far consisted of whole lines with nothing after a [DONE]
\* line.
NewExchange(log, busy, at) ==
    [msg |-> at, id |-> log[at].id, model |-> log[at].model,
     history |-> History(log, log[at]),
     pc |-> "fetch", chunks |-> << >>, sent |-> << >>, clean |-> TRUE,
     issued |-> [len |-> Len(log),
                 placeholders |-> {i \in 1..Len(log) :
                                     /\ log[i].role = "assistant"
                                     /\ log[i].loading
                                     /\ log[i].content = << >>},
                 busy |-> {m \in Models : busy[m]}]]

sendPrompt(targetModelId) ==
    LET isGlobalFixed == targetModelId = Undefined
        currentPrompt == IF isGlobalFixed THEN prompt
                         ELSE OrEmpty(modelPrompts[targetModelId])
        activeModels == IF isGlobalFixed THEN selectedModels ELSE <<targetModelId>>
        n == Len(activeModels)
    IN  IF Rejects(currentPrompt, activeModels)
        THEN /\ rejected' = TRUE
             /\ UNCHANGED <<prompt, modelPrompts, availableModels, selectedModels,
                            messages, isModelLoading, exchanges, catalogPc, typed, reads>>
        ELSE /\ Len(messages) + 1 + n <= MaxTurns
             /\ \E ts \in Stamps(1 + n) :
                  LET userMessage == UserMessage(ts[1], currentPrompt, targetModelId,
                                                 selectedModels)
                      log1 == Append(messages, userMessage)
                      busy1 == MarkBusy(isModelLoading, activeModels)
                      assistantMessages == AssistantMessages(Tail(ts), activeModels)
                      log2 == log1 \o assistantMessages
                      k0 == Len(log2) - Len(assistantMessages)
                  IN  /\ messages' = log2
                      /\ isModelLoading' = busy1
                      /\ exchanges' = exchanges \o
                            [k \in 1..Len(assistantMessages) |->
                               NewExchange(log2, busy1, k0 + k)]
             /\ IF isGlobalFixed
                THEN prompt' = << >> /\ UNCHANGED modelPrompts
                ELSE /\ modelPrompts' = ClearReply(modelPrompts, targetModelId)
                     /\ UNCHANGED prompt
             /\ rejected' = FALSE
             /\ UNCHANGED <<availableModels, selectedModels, catalogPc, typed, reads>>

-----------------------------------------------------------------------------
(* Wire format of a streamed response.  A chunk is a sequence of tokens: the     *)
(* prefix "data: ", a line feed, the sentinel, the text before and after the     *)
(* delta text of a JSON record, and delta texts.                                 *)

DataPrefix == "data: "
LineFeed == "LF"
DoneMark == "[DONE]"
JsonOpen == "{\"choices\":[{\"delta\":{\"content\":\""
JsonClose == "\"}}]}"
DeltaTexts == {"Hel", "lo"}

\* What the transport can put into a chunk
DeltaLine(d) == <<DataPrefix, JsonOpen, d, JsonClose, LineFeed>>
EmptyDeltaLine == <<DataPrefix, JsonOpen, JsonClose, LineFeed>>
DoneLine == <<DataPrefix, DoneMark, LineFeed>>
LineHead(d) == <<DataPrefix, JsonOpen, d>>       \* a data line cut before its end
LineTail == <<JsonClose, LineFeed>>              \* the rest of a cut line
WholeLines == {DeltaLine(d) : d \in DeltaTexts} \cup {EmptyDeltaLine, DoneLine}
Pieces == WholeLines \cup {LineHead("Hel"), LineTail}

RECURSIVE Concat(_)
Concat(ps) == IF ps = << >> THEN << >> ELSE Head(ps) \o Concat(Tail(ps))

\* The chunks a read can deliver, each as the pieces it is made of: every piece
\* alone, and the pairs in which the order or the cut of the lines matters
ChunkPieces ==
    {<<p>> : p \in Pieces} \cup
    {<<DeltaLine("Hel"), DeltaLine("lo")>>,
     <<DoneLine, DeltaLine("lo")>>,
     <<LineTail, DeltaLine("lo")>>,
     <<LineHead("Hel"), LineTail>>}

CleanChunk(ps) ==
    /\ \A k \in 1..Len(ps) : ps[k] \in WholeLines
    /\ \A k \in 1..Len(ps) : ps[k] = DoneLine => k = Len(ps)

-----------------------------------------------------------------------------
(* Stream consumer: the body of the read loop, lines 220-244 *)

\* chunk.split('\n'): the text between line feeds, the last element is what follows
\* the last line feed
RECURSIVE SplitLines(_, _)
SplitLines(chunk, line) ==
    IF chunk = << >> THEN <<line>>
    ELSE IF Head(chunk) = LineFeed THEN <<line>> \o SplitLines(Tail(chunk), << >>)
    ELSE SplitLines(Tail(chunk), Append(line, Head(chunk)))

split(chunk) == SplitLines(chunk, << >>)

\* line.startsWith('data: ')
startsWithData(line) == line # << >> /\ Head(line) = DataPrefix

\* JSON.parse(data) succeeds and parsed.choices[0] can be read
Parses(data) ==
    /\ Len(data) >= 2
    /\ data[1] = JsonOpen
    /\ data[Len(data)] = JsonClose
    /\ \A i \in 2..(Len(data) - 1) : data[i] \in DeltaTexts

\* parsed.choices[0]?.delta?.content || ''
DeltaOf(data) == SubSeq(data, 2, Len(data) - 1)

\* What a chunk carries: the delta texts of the data lines that lie wholly in it,
\* in their order (a line cut into two pieces of one chunk is whole in it)
RECURSIVE LineDeltas(_)
LineDeltas(lines) ==
    IF lines = << >> THEN << >>
    ELSE (IF startsWithData(Head(lines)) /\ Parses(Tail(Head(lines)))
          THEN DeltaOf(Tail(Head(lines))) ELSE << >>) \o LineDeltas(Tail(lines))

PieceDeltas(ps) == LineDeltas(split(Concat(ps)))

\* lines 231-238
ApplyDelta(log, id, delta) ==
    LET currentMsgIndex == findIndex(log, id)
    IN  IF currentMsgIndex # 0
        THEN [log EXCEPT ![currentMsgIndex].content = @ \o delta,
                         ![currentMsgIndex].loading = FALSE]
        ELSE log

\* A faulty variant: a line that is not a data record ends the processing of the chunk
RECURSIVE ProcessLinesMutStop(_, _, _)
ProcessLinesMutStop(log, id, lines) ==
    IF lines = << >> THEN log
    ELSE LET line == Head(lines)
             data == Tail(line)
         IN  IF ~startsWithData(line) THEN log
             ELSE IF data = <<DoneMark>> THEN log
             ELSE IF ~Parses(data) THEN log
             ELSE IF DeltaOf(data) # << >>
                  THEN ProcessLinesMutStop(ApplyDelta(log, id, DeltaOf(data)), id, Tail(lines))
                  ELSE ProcessLinesMutStop(log, id, Tail(lines))

\* for (const line of lines) { ... }, lines 223-244
RECURSIVE ProcessLines(_, _, _)
ProcessLines(log, id, lines) ==
    IF lines = << >> THEN log
    ELSE LET line == Head(lines)
             data == Tail(line)
         IN  IF ~startsWithData(line) THEN ProcessLines(log, id, Tail(lines))
             ELSE IF data = <<DoneMark>> THEN log
             ELSE IF Parses(data) /\ DeltaOf(data) # << >>
                  THEN ProcessLines(ApplyDelta(log, id, DeltaOf(data)), id, Tail(lines))
                  ELSE ProcessLines(log, id, Tail(lines))

\* A faulty variant: the failed Turn is taken out of the log
SetErrorMutDrop(log, id, message) ==
    LET currentMsgIndex == findIndex(log, id)
    IN  IF currentMsgIndex # 0
        THEN SubSeq(log, 1, currentMsgIndex - 1) \o SubSeq(log, currentMsgIndex + 1, Len(log))
        ELSE log

\* the catch block, lines 247-254
SetError(log, id, message) ==
    LET currentMsgIndex == findIndex(log, id)
    IN  IF currentMsgIndex # 0
        THEN [log EXCEPT ![currentMsgIndex].error = message,
                         ![currentMsgIndex].loading = FALSE]
        ELSE log

\* the finally block, lines 256-262
ClearLoading(log, id) ==
    LET currentMsgIndex == findIndex(log, id)
    IN  IF currentMsgIndex # 0
        THEN [log EXCEPT ![currentMsgIndex].loading = FALSE]
        ELSE log

\* A faulty variant: the busy flag is left as it was
RecomputeMutKeep(busy, log, model) == busy

\* A faulty variant: the end of an exchange clears the busy flag of its model
RecomputeMutClear(busy, log, model) == [busy EXCEPT ![model] = FALSE]

\* the finally block, lines 263-265
Recompute(busy, log, model) ==
    [busy EXCEPT ![model] = \E i \in 1..Len(log) : log[i].model = model /\ log[i].loading]

InFlight(e) == e.pc \in {"fetch", "read"}

\* await fetch(...) resolved with res.ok and a body: up to the first reader.read()
FetchResolves(i) ==
    /\ exchanges[i].pc = "fetch"
    /\ exchanges' = [exchanges EXCEPT ![i].pc = "read"]
    /\ rejected' = FALSE
    /\ UNCHANGED <<prompt, modelPrompts, availableModels, selectedModels, messages,
                   isModelLoading, catalogPc, typed, reads>>

\* fetch rejected, or !res.ok (line 210), or no reader (line 213): catch and finally
FetchFails(i, reason) ==
    /\ exchanges[i].pc = "fetch"
    /\ LET e == exchanges[i]
           log1 == SetError(messages, e.id, reason)
           log2 == ClearLoading(log1, e.id)
       IN  /\ messages' = log2
           /\ isModelLoading' = Recompute(isModelLoading, log2, e.model)
    /\ exchanges' = [exchanges EXCEPT ![i].pc = "failed"]
    /\ rejected' = FALSE
    /\ UNCHANGED <<prompt, modelPrompts, availableModels, selectedModels, catalogPc, typed, reads>>

\* reader.read() resolved with a chunk: decode, split, apply, read again
Chunk(i, pieces) ==
    /\ exchanges[i].pc = "read"
    /\ reads' = reads + 1
    /\ messages' = ProcessLines(messages, exchanges[i].id, split(Concat(pieces)))
    /\ exchanges' = [exchanges EXCEPT ![i].chunks = Append(@, pieces),
                                      ![i].sent = @ \o PieceDeltas(pieces),
                                      ![i].clean = @ /\ CleanChunk(pieces)]
    /\ rejected' = FALSE
    /\ UNCHANGED <<prompt, modelPrompts, availableModels, selectedModels,
                   isModelLoading, catalogPc, typed>>

ReadChunk(i, pieces) == reads < MaxReads /\ Chunk(i, pieces)

\* reader.read() resolved with done: break (line 218), then finally
ReadDone(i) ==
    /\ exchanges[i].pc = "read"
    /\ LET e == exchanges[i]
           log1 == ClearLoading(messages, e.id)
       IN  /\ messages' = log1
           /\ isModelLoading' = Recompute(isModelLoading, log1, e.model)
    /\ exchanges' = [exchanges EXCEPT ![i].pc = "complete"]
    /\ rejected' = FALSE
    /\ UNCHANGED <<prompt, modelPrompts, availableModels, selectedModels, catalogPc, typed, reads>>

\* reader.read() rejected: catch and finally
ReadThrows(i) ==
    /\ exchanges[i].pc = "read"
    /\ LET e == exchanges[i]
           log1 == SetError(messages, e.id, ReadError)
           log2 == ClearLoading(log1, e.id)
       IN  /\ messages' = log2
           /\ isModelLoading' = Recompute(isModelLoading, log2, e.model)
    /\ exchanges' = [exchanges EXCEPT ![i].pc = "failed"]
    /\ rejected' = FALSE
    /\ UNCHANGED <<prompt, modelPrompts, availableModels, selectedModels, catalogPc, typed, reads>>

-----------------------------------------------------------------------------

(* The call sites of the template.  The model selector lists the catalog (lines  *)
(* 558-567); the panel of a model, with its reply box and its submit, is rendered *)
(* for the selected models once the log is not empty (lines 400, 416-418, 495).   *)
(* The disabled attributes of the inputs are not part of these steps.             *)

Listed == Range(availableModels)

Panels == IF Len(messages) = 0 THEN {} ELSE Range(selectedModels)

\* what the user and the catalog endpoint can do
User(catalogs) ==
    \/ \E list \in catalogs : FetchModelsOk(list)
    \/ FetchModelsFail
    \/ \E modelId \in Listed : toggleModel(modelId)
    \/ \E text \in PromptTexts : TypePrompt(text)
    \/ \E modelId \in Panels, text \in ReplyTexts : TypeReply(modelId, text)
    \/ sendPrompt(Undefined)
    \/ \E modelId \in Panels : sendPrompt(modelId)

\* what the chat-completion endpoint can do
Transport ==
    \/ \E i \in 1..Len(exchanges) : FetchResolves(i)
    \/ \E i \in 1..Len(exchanges), reason \in FetchErrors : FetchFails(i, reason)
    \/ \E i \in 1..Len(exchanges), pieces \in ChunkPieces : ReadChunk(i, pieces)
    \/ \E i \in 1..Len(exchanges) : ReadDone(i)
    \/ \E i \in 1..Len(exchanges) : ReadThrows(i)

Next == User(Catalogs) \/ Transport

Spec == Init /\ [][Next]_vars

\* A catalog of three models and an endpoint that never answers (an exchange may
\* stall for ever): the selection and the log alone.
NextSelection == User(WideCatalogs)

SpecSelection == Init /\ [][NextSelection]_vars

\* computed(() => selectedModels.value.some(m => isModelLoading.value[m])), line 105
isGlobalLoading == \E m \in Range(selectedModels) : isModelLoading[m]

\* The global textarea takes input and Ctrl/Cmd+Enter while it is not disabled
\* (line 530); the submit button is disabled in these states and more (line 602).
GlobalEnabled == ~(isGlobalLoading \/ Len(selectedModels) = 0)

\* A faulty variant: the reply box of a panel is never disabled
PanelEnabledMutAlways(modelId) == TRUE

\* The reply box of a panel, line 500
PanelEnabled(modelId) == ~isModelLoading[modelId]

\* what the user can do through the rendered page, its disabled inputs respected
UserGated(catalogs) ==
    \/ \E list \in catalogs : FetchModelsOk(list)
    \/ FetchModelsFail
    \/ \E modelId \in Listed : toggleModel(modelId)
    \/ \E text \in PromptTexts : GlobalEnabled /\ TypePrompt(text)
    \/ \E modelId \in Panels, text \in ReplyTexts :
          PanelEnabled(modelId) /\ TypeReply(modelId, text)
    \/ GlobalEnabled /\ sendPrompt(Undefined)
    \/ \E modelId \in Panels : PanelEnabled(modelId) /\ sendPrompt(modelId)

NextGated == UserGated(Catalogs) \/ Transport

SpecGated == Init /\ [][NextGated]_vars

\* The endpoint answers: the request of an exchange is answered or fails, and a
\* stream that is being read ends or breaks (chunks may come before that).
Settles(i) ==
    /\ i \in 1..Len(exchanges)
    /\ \/ FetchResolves(i)
       \/ \E reason \in FetchErrors : FetchFails(i, reason)
       \/ ReadDone(i)
       \/ ReadThrows(i)

\* The page with an endpoint that leaves no exchange waiting for ever
SpecLive == SpecGated /\ \A i \in 1..MaxTurns : WF_vars(Settles(i))

\* An input event of the global textarea or of a reply box, as TypePrompt and
\* TypeReply but not counted: with the endpoint silent the texts, the selection and
\* the bounded log are all there is, and any number of edits can be followed.
EditPrompt(text) ==
    /\ text # prompt
    /\ prompt' = text
    /\ rejected' = FALSE
    /\ UNCHANGED <<modelPrompts, availableModels, selectedModels, messages,
                   isModelLoading, exchanges, catalogPc, typed, reads>>

EditReply(modelId, text) ==
    /\ text # modelPrompts[modelId]
    /\ modelPrompts' = [modelPrompts EXCEPT ![modelId] = text]
    /\ rejected' = FALSE
    /\ UNCHANGED <<prompt, availableModels, selectedModels, messages,
                   isModelLoading, exchanges, catalogPc, typed, reads>>

NextInputs ==
    \/ \E list \in WideCatalogs : FetchModelsOk(list)
    \/ \E modelId \in Listed : toggleModel(modelId)
    \/ \E text \in PromptTexts : EditPrompt(text)
    \/ \E modelId \in Panels, text \in ReplyTexts : EditReply(modelId, text)
    \/ sendPrompt(Undefined)
    \/ \E modelId \in Panels : sendPrompt(modelId)

SpecInputs == Init /\ [][NextInputs]_vars

\* The page with one catalog, one prompt text and one kind of refusal, and a stream
\* that is followed for more chunks.
NextStream ==
    \/ FetchModelsOk(<<"A", "B">>)
    \/ \E modelId \in Listed : toggleModel(modelId)
    \/ GlobalEnabled /\ TypePrompt(<<"Hi">>)
    \/ \E modelId \in Panels, text \in ReplyTexts :
          PanelEnabled(modelId) /\ TypeReply(modelId, text)
    \/ GlobalEnabled /\ sendPrompt(Undefined)
    \/ \E modelId \in Panels : PanelEnabled(modelId) /\ sendPrompt(modelId)
    \/ \E i \in 1..Len(exchanges) : FetchResolves(i)
    \/ \E i \in 1..Len(exchanges) : FetchFails(i, "Status: 500")
    \/ \E i \in 1..Len(exchanges), pieces \in ChunkPieces :
          reads < MaxStreamReads /\ Chunk(i, pieces)
    \/ \E i \in 1..Len(exchanges) : ReadDone(i)
    \/ \E i \in 1..Len(exchanges) : ReadThrows(i)

SpecStream == Init /\ [][NextStream]_vars

-----------------------------------------------------------------------------
(* Names derived from a model id, lines 289-318.  Here a model id is a sequence of *)
(* characters.                                                                    *)

Slash == "/"
Colon == ":"
GptPrefix == <<"g", "p", "t", "-">>
ClaudePrefix == <<"c", "l", "a", "u", "d", "e", "-">>
OpenAi == <<"o", "p", "e", "n", "a", "i">>
Anthropic == <<"a", "n", "t", "h", "r", "o", "p", "i", "c">>

\* the ids the catalog endpoint may list: the ids composed of up to MaxParts of
\* these parts, the empty id among them, and four ids in full
IdParts == {GptPrefix, ClaudePrefix, <<Slash>>, <<Colon>>, <<"x">>}

RECURSIVE Composed(_)
Composed(n) ==
    IF n = 0 THEN {<< >>}
    ELSE LET shorter == Composed(n - 1)
         IN  shorter \cup {id \o part : id \in shorter, part \in IdParts}

OpenAiGpt4 == OpenAi \o <<Slash>> \o GptPrefix \o <<"4">>
Gpt4 == GptPrefix \o <<"4">>
Claude3Opus == ClaudePrefix \o <<"3", "-", "o", "p", "u", "s">>
Llama3Tag8b == <<"l", "l", "a", "m", "a", "3", Colon, "8", "b">>

ModelIds == Composed(MaxParts) \cup {OpenAiGpt4, Gpt4, Claude3Opus, Llama3Tag8b}

\* String.prototype.split(sep) for a separator of one character
RECURSIVE SplitOn(_, _, _)
SplitOn(str, sep, seg) ==
    IF str = << >> THEN <<seg>>
    ELSE IF Head(str) = sep THEN <<seg>> \o SplitOn(Tail(str), sep, << >>)
    ELSE SplitOn(Tail(str), sep, Append(seg, Head(str)))

\* String.prototype.startsWith
startsWith(str, prefix) ==
    Len(str) >= Len(prefix) /\ SubSeq(str, 1, Len(prefix)) = prefix

\* a || b for strings
OrElse(a, b) == IF a # << >> THEN a ELSE b

\* A faulty variant: the tag is not taken off
getProviderMutKeepTag(modelId) ==
    LET base == OrElse(SplitOn(modelId, Slash, << >>)[1], modelId)
    IN  IF startsWith(base, GptPrefix) THEN OpenAi
        ELSE IF startsWith(base, ClaudePrefix) THEN Anthropic
        ELSE base

\* lines 289-295
getProvider(modelId) ==
    LET base == OrElse(SplitOn(modelId, Slash, << >>)[1], modelId)
    IN  IF startsWith(base, GptPrefix) THEN OpenAi
        ELSE IF startsWith(base, ClaudePrefix) THEN Anthropic
        ELSE OrElse(SplitOn(base, Colon, << >>)[1], base)

\* A faulty variant: the tag is taken off the name
getDisplayNameMutStripTag(modelId) ==
    LET parts == SplitOn(modelId, Slash, << >>)
        whole == IF Len(parts) > 1 THEN OrElse(parts[Len(parts)], modelId) ELSE modelId
    IN  SplitOn(whole, Colon, << >>)[1]

\* lines 298-305
getDisplayName(modelId) ==
    LET parts == SplitOn(modelId, Slash, << >>)
    IN  IF Len(parts) > 1
        THEN LET lastPart == parts[Len(parts)] IN OrElse(lastPart, modelId)
        ELSE modelId

Null == [null |-> TRUE]

\* computed, lines 308-318: what the trigger of the selector shows
selectedModelData ==
    IF Len(selectedModels) = 0 THEN Null
    ELSE LET firstSelected == selectedModels[1]
         IN  IF firstSelected \notin Range(availableModels) THEN Null
             ELSE [id |-> firstSelected,
                   provider |-> getProvider(firstSelected),
                   name |-> getDisplayName(firstSelected)]

\* The catalog has answered with one model of any of the ids, nothing is selected
InitNames ==
    /\ prompt = << >>
    /\ modelPrompts = [m \in Models |-> NoText]
    /\ availableModels \in {<<id>> : id \in ModelIds}
    /\ selectedModels = << >>
    /\ messages = << >>
    /\ isModelLoading = [m \in Models |-> FALSE]
    /\ exchanges = << >>
    /\ catalogPc = "done"
    /\ typed = 0
    /\ reads = 0
    /\ rejected = FALSE

\* the model is picked in the selector, or dropped again
NextNames == \E modelId \in Listed : toggleModel(modelId)

SpecNames == InitNames /\ [][NextNames]_vars

-----------------------------------------------------------------------------
(* Properties *)

Targets == Models \cup {Undefined}

\* the text sendPrompt(target) would read
TextFor(target) ==
    IF target = Undefined THEN prompt
    ELSE IF modelPrompts[target] = NoText THEN << >> ELSE modelPrompts[target]

\* the projection rule as the design states it
RuleMatches(turn, modelId) ==
    IF turn.role = "assistant" THEN turn.model = modelId
    ELSE \/ turn.model = modelId
         \/ (turn.targetModels # NoTargets /\ modelId \in Range(turn.targetModels))
         \/ (turn.model = Undefined /\ turn.targetModels = NoTargets)

Pairs(turns) == [k \in 1..Len(turns) |-> [role |-> turns[k].role, content |-> turns[k].content]]

\* a log without its p-th Turn
DropAt(log, p) == SubSeq(log, 1, p - 1) \o SubSeq(log, p + 1, Len(log))

\* the index of the user Turn of the dispatch that appended the placeholder at p
RECURSIVE UserTurnOf(_)
UserTurnOf(p) == IF messages[p].role = "user" THEN p ELSE UserTurnOf(p - 1)

\* the target list of the dispatch that appended the user Turn u
TargetsOf(u) == IF u.model # Undefined THEN <<u.model>> ELSE u.targetModels

\* the Turn is shown in the panel of modelId
InProjection(turn, modelId) == turn \in Range(getHistoryForModelDisplay(modelId))

\* a text of white space only (the empty text included)
Blanks(text) == \A k \in 1..Len(text) : text[k] = Blank

\* C1: every step that makes the log longer appends one user Turn and then one
\* assistant Turn per target model, in the order of the target list, each with
\* empty content; the Turns already in the log are as they were, and one exchange
\* is started per target.
C1_DispatchAppendsUserAndPlaceholders ==
    [][Len(messages') # Len(messages) =>
         /\ Len(messages') > Len(messages)
         /\ LET n0 == Len(messages)
                u == messages'[n0 + 1]
                ts == IF u.model = Undefined THEN selectedModels ELSE <<u.model>>
                N == Len(ts)
            IN  /\ N >= 1
                /\ Len(messages') = n0 + 1 + N
                /\ SubSeq(messages', 1, n0) = messages
                /\ u.role = "user"
                /\ \A k \in 1..N :
                     /\ messages'[n0 + 1 + k].role = "assistant"
                     /\ messages'[n0 + 1 + k].model = ts[k]
                     /\ messages'[n0 + 1 + k].content = << >>
                /\ Len(exchanges') = Len(exchanges) + N
                /\ \A k \in 1..N : exchanges'[Len(exchanges) + k].msg = n0 + 1 + k
    ]_vars

\* a dispatch to two models has happened and nothing has answered yet
C1_Witness ==
    \E i \in 1..Len(messages) :
        /\ messages[i].role = "user"
        /\ messages[i].targetModels # NoTargets
        /\ Len(messages[i].targetModels) = 2
        /\ Len(messages) >= i + 2
        /\ \A k \in 1..2 : /\ messages[i + k].role = "assistant"
                           /\ messages[i + k].model = messages[i].targetModels[k]
                           /\ messages[i + k].loading

\* C2: when one of two exchanges in flight fails, the assistant Turn of the other
\* keeps its content, loading and error.
C2_FailureLeavesSiblingTurn ==
    [][\A i, j \in 1..Len(exchanges) :
         (/\ i # j
          /\ InFlight(exchanges[i])
          /\ InFlight(exchanges[j])
          /\ exchanges'[i].pc = "failed")
         => messages'[exchanges[j].msg] = messages[exchanges[j].msg]
    ]_vars

\* C3: when the request of an exchange was issued, every placeholder of its
\* dispatch was in the log, empty and loading, with the model of its target, and
\* every target was flagged busy.
C3_PlaceholdersAndBusyBeforeRequest ==
    \A i \in 1..Len(exchanges) :
        LET e == exchanges[i]
            u == UserTurnOf(e.msg)
            ts == TargetsOf(messages[u])
        IN  /\ e.issued.len >= u + Len(ts)
            /\ \A k \in 1..Len(ts) :
                 /\ (u + k) \in e.issued.placeholders
                 /\ messages[u + k].model = ts[k]
                 /\ ts[k] \in e.issued.busy

\* the response of one target of a dispatch to two models has been processed while
\* the request of its sibling is still unanswered
C3_Witness ==
    \E i, j \in 1..Len(exchanges) :
        /\ i # j
        /\ UserTurnOf(exchanges[i].msg) = UserTurnOf(exchanges[j].msg)
        /\ exchanges[i].pc = "complete"
        /\ exchanges[j].pc = "fetch"

\* C4: a global user Turn is in projectFor(M) exactly for the models M selected at
\* the step that created it, and no later step changes in which projections it is.
C4_GlobalTurnKeepsSelectionSnapshot ==
    [][\A i \in 1..Len(messages') : \A modelId \in Models :
         (messages'[i].role = "user" /\ messages'[i].targetModels # NoTargets) =>
            IF i <= Len(messages)
            THEN InProjection(messages[i], modelId)' <=> InProjection(messages[i], modelId)
            ELSE InProjection(messages[i], modelId)' <=> modelId \in Range(selectedModels)
    ]_vars

\* a Turn sent to {A, B} is shown for A and B and not for C while the selection is {C}
C4_Witness ==
    /\ selectedModels = <<"C">>
    /\ \E i \in 1..Len(messages) :
         /\ messages[i].role = "user"
         /\ messages[i].targetModels # NoTargets
         /\ Range(messages[i].targetModels) = {"A", "B"}
         /\ InProjection(messages[i], "A")
         /\ InProjection(messages[i], "B")
         /\ ~InProjection(messages[i], "C")

\* C5: projectFor(M) holds no Turn whose model is set to another id.
C5_ProjectionHasNoForeignModel ==
    \A modelId \in Models :
        \A k \in 1..Len(getHistoryForModelDisplay(modelId)) :
            getHistoryForModelDisplay(modelId)[k].model \in {Undefined, modelId}

\* the log holds Turns of A and Turns of B, and A's projection is not empty
C5_Witness ==
    /\ \E i \in 1..Len(messages) : messages[i].role = "assistant" /\ messages[i].model = "B"
    /\ \E i \in 1..Len(messages) : messages[i].role = "user" /\ messages[i].model = "B"
    /\ \E k \in 1..Len(getHistoryForModelDisplay("A")) :
         getHistoryForModelDisplay("A")[k].role = "assistant"

\* C6: projectFor(M) is the subsequence of the log, in log order, of the Turns that
\* match M under the stated rule.
C6_ProjectionIsTheRule ==
    \A modelId \in Models :
        getHistoryForModelDisplay(modelId)
            = SelectSeq(messages, LAMBDA turn : RuleMatches(turn, modelId))

\* a log with a global Turn and a reply to one model, whose projections differ
C6_Witness ==
    /\ \E i \in 1..Len(messages) : messages[i].targetModels # NoTargets
    /\ \E i \in 1..Len(messages) : messages[i].role = "user" /\ messages[i].model # Undefined
    /\ getHistoryForModelDisplay("A") # getHistoryForModelDisplay("B")
    /\ getHistoryForModelDisplay("A") # << >>
    /\ getHistoryForModelDisplay("B") # << >>

\* C7: the history sent for the placeholder P of model M is the display projection
\* for M of the log at that moment with P removed and nothing else removed or added.
C7_HistoryIsProjectionWithoutSelf ==
    [][\A i \in 1..Len(exchanges') :
         i > Len(exchanges) =>
            exchanges'[i].history
                = Pairs(FilterFor(DropAt(messages', exchanges'[i].msg), exchanges'[i].model))
    ]_vars

\* C8: the history sent for a new exchange is every earlier Turn that matches the
\* target model, in log order, followed by the prompt just dispatched, once.
C8_HistoryIsEarlierMatchesThenPrompt ==
    [][\A i \in 1..Len(exchanges') :
         i > Len(exchanges) =>
            LET e == exchanges'[i]
                u == messages'[Len(messages) + 1]
            IN  e.history
                  = Pairs(SelectSeq(messages, LAMBDA turn : RuleMatches(turn, e.model)))
                    \o <<[role |-> "user",
                          content |-> TextFor(IF u.model = Undefined THEN Undefined ELSE u.model)]>>
    ]_vars

\* C9: a sendPrompt call with a blank text, or a global one with an empty selection,
\* changes neither the log nor the texts nor the busy flags and starts no exchange.
C9_BlankOrNoTargetIsNoOp ==
    [][\A target \in Targets :
         (/\ sendPrompt(target)
          /\ \/ Blanks(TextFor(target))
             \/ (target = Undefined /\ Len(selectedModels) = 0))
         => UNCHANGED <<messages, prompt, modelPrompts, isModelLoading, exchanges>>
    ]_vars

\* the global submit was turned away with a white-space prompt and a selection
C9_Witness ==
    /\ rejected
    /\ Len(messages) = 0
    /\ prompt = <<Blank>>
    /\ Len(selectedModels) > 0

\* C10: an exchange that received whole lines only, with nothing after [DONE] and
\* at least one delta text, and then ended has the delta texts in arrival order as
\* its Turn's content, loading false and no error.
C10_CompleteTurnIsConcatenation ==
    \A i \in 1..Len(exchanges) :
        (/\ exchanges[i].pc = "complete"
         /\ exchanges[i].clean
         /\ exchanges[i].sent # << >>) =>
            /\ messages[exchanges[i].msg].content = exchanges[i].sent
            /\ messages[exchanges[i].msg].loading = FALSE
            /\ messages[exchanges[i].msg].error = Undefined

\* C11: when the fetch of an exchange fails (status not ok, or no reader), the
\* exchange has read no chunk and its own Turn has the failure reason as error,
\* loading false and empty content.
C11_TransportFailureMarksOwnTurn ==
    [][\A i \in 1..Len(exchanges) :
         (exchanges[i].pc = "fetch" /\ exchanges'[i].pc = "failed") =>
            /\ exchanges[i].sent = << >>
            /\ messages'[exchanges[i].msg].error \in FetchErrors
            /\ messages'[exchanges[i].msg].loading = FALSE
            /\ messages'[exchanges[i].msg].content = << >>
    ]_vars

\* C12: when a read of an exchange throws, its own Turn has the message of the
\* exception as error, loading false and the content it had; a failed exchange
\* stays failed, so it reads no further chunk.
C12_ReadExceptionMarksOwnTurn ==
    [][\A i \in 1..Len(exchanges) :
         /\ (exchanges[i].pc = "read" /\ exchanges'[i].pc = "failed") =>
               /\ messages'[exchanges[i].msg].error = ReadError
               /\ messages'[exchanges[i].msg].loading = FALSE
               /\ messages'[exchanges[i].msg].content = messages[exchanges[i].msg].content
         /\ exchanges[i].pc = "failed" =>
               /\ exchanges'[i].pc = "failed"
               /\ exchanges'[i].sent = exchanges[i].sent
    ]_vars

\* C13: an exchange whose stream ended without error, and to which the transport
\* delivered no delta text, has a Turn with loading false, empty content and no error.
C13_EmptyStreamCompletes ==
    \A i \in 1..Len(exchanges) :
        (exchanges[i].pc = "complete" /\ exchanges[i].sent = << >>) =>
            /\ messages[exchanges[i].msg].loading = FALSE
            /\ messages[exchanges[i].msg].content = << >>
            /\ messages[exchanges[i].msg].error = Undefined

\* some Turn of the log with this model is loading
SomeLoading(log, model) == \E k \in 1..Len(log) : log[k].model = model /\ log[k].loading

\* C14: in the step in which an exchange for model M ends (complete or failed), the
\* exchange's own Turn has its loading cleared, M's busy flag becomes "some Turn
\* with model M is loading" in the log after that, and no other busy flag changes.
C14_BusyRecomputedOnEveryExit ==
    [][\A i \in 1..Len(exchanges) :
         (InFlight(exchanges[i]) /\ ~InFlight(exchanges'[i])) =>
            /\ messages'[exchanges[i].msg].loading = FALSE
            /\ isModelLoading'[exchanges[i].model]
                  = SomeLoading(messages', exchanges[i].model)
            /\ \A m \in Models \ {exchanges[i].model} :
                  isModelLoading'[m] = isModelLoading[m]
    ]_vars

\* C15: the busy flag of a model is true exactly when some Turn of the model is
\* loading or an exchange for the model is in flight.
C15_BusyIffLoadingOrInFlight ==
    \A m \in Models :
        isModelLoading[m] <=>
            \/ SomeLoading(messages, m)
            \/ \E i \in 1..Len(exchanges) :
                  exchanges[i].model = m /\ InFlight(exchanges[i])

\* C16: a Turn with an error is not loading, and no step changes the content of a
\* Turn that has an error.
C16_ErrorFreezesTurn ==
    [][\A k \in 1..Len(messages) :
         /\ messages'[k].error # Undefined => messages'[k].loading = FALSE
         /\ messages[k].error # Undefined => messages'[k].content = messages[k].content
    ]_vars

\* C15: a model is busy while an exchange for it is in flight whose Turn is no
\* longer loading
C15_Witness ==
    \E i \in 1..Len(exchanges) :
        /\ InFlight(exchanges[i])
        /\ ~SomeLoading(messages, exchanges[i].model)
        /\ isModelLoading[exchanges[i].model]
        /\ \E m \in Models : ~isModelLoading[m] /\ \E k \in 1..Len(messages) :
              messages[k].model = m /\ messages[k].role = "assistant"

\* C17: every step keeps the Turns of the log in place: the ids before the step are
\* a prefix of the ids after it, and the role, model and targetModels of a Turn
\* stay what they were.
C17_LogIsAppendOnly ==
    [][/\ Len(messages') >= Len(messages)
       /\ \A k \in 1..Len(messages) :
             /\ messages'[k].id = messages[k].id
             /\ messages'[k].role = messages[k].role
             /\ messages'[k].model = messages[k].model
             /\ messages'[k].targetModels = messages[k].targetModels
    ]_vars

\* a second dispatch was appended after a delta and a failure were recorded
C17_Witness ==
    /\ Len(messages) = 4
    /\ messages[2].content # << >> \/ messages[2].error # Undefined
    /\ \E i \in 1..Len(exchanges) : exchanges[i].pc = "failed"
    /\ Len(selectedModels) = 0

\* C18: a chunk read for the exchange of Turn X changes no Turn but X and keeps the
\* length of the log; if it changes X, X's content is what it was followed by the
\* text applied, X's loading is false and X's error is what it was.
C18_DeltaChangesOnlyItsTurn ==
    [][\A i \in 1..Len(exchanges) : \A pieces \in ChunkPieces :
         ReadChunk(i, pieces) =>
            LET x == exchanges[i].msg
            IN  /\ Len(messages') = Len(messages)
                /\ \A k \in 1..Len(messages) : k # x => messages'[k] = messages[k]
                /\ messages'[x] # messages[x] =>
                      /\ Len(messages'[x].content) > Len(messages[x].content)
                      /\ SubSeq(messages'[x].content, 1, Len(messages[x].content))
                            = messages[x].content
                      /\ messages'[x].loading = FALSE
                      /\ messages'[x].error = messages[x].error
    ]_vars

\* C19: no two Turns of the log have the same id.
C19_TurnIdsAreDistinct ==
    \A i, j \in 1..Len(messages) : i # j => messages[i].id # messages[j].id

\* C20: a dispatch for one model appends a user Turn with that model and no
\* targetModels, a global dispatch one with targetModels and no model; every
\* assistant Turn has one model, which is a target of its dispatch.
C20_TurnScopeFields ==
    [][/\ \A target \in Targets :
             (sendPrompt(target) /\ Len(messages') > Len(messages)) =>
                LET u == messages'[Len(messages) + 1]
                IN  IF target = Undefined
                    THEN u.model = Undefined /\ u.targetModels = selectedModels
                    ELSE u.model = target /\ u.targetModels = NoTargets
       /\ \A k \in 1..Len(messages') :
             IF messages'[k].role = "user"
             THEN ~(messages'[k].model # Undefined /\ messages'[k].targetModels # NoTargets)
             ELSE /\ messages'[k].model \in Models
                  /\ messages'[k].targetModels = NoTargets
                  /\ \E j \in 1..(k - 1) :
                        /\ messages'[j].role = "user"
                        /\ \A l \in (j + 1)..k : messages'[l].role = "assistant"
                        /\ messages'[k].model \in Range(TargetsOf(messages'[j]))
    ]_vars

\* the log holds a global dispatch to two models and a reply to one model
C20_Witness ==
    /\ \E k \in 1..Len(messages) :
          messages[k].role = "user" /\ messages[k].targetModels # NoTargets
    /\ \E k \in 1..Len(messages) :
          messages[k].role = "user" /\ messages[k].model # Undefined
    /\ \E k \in 1..Len(messages) : messages[k].role = "assistant"

\* C21: a step that appends a user Turn empties the input the text was taken from
\* and no other: the global prompt text for a global Turn, every reply text being
\* as it was; the reply text of M for a reply to M, the global prompt text and the
\* reply text of every other model being as they were.
C21_DispatchClearsOriginatingInput ==
    [][Len(messages') > Len(messages) =>
         LET u == messages'[Len(messages) + 1]
         IN  /\ u.role = "user"
             /\ IF u.model = Undefined
                THEN /\ u.content = prompt
                     /\ prompt' = << >>
                     /\ modelPrompts' = modelPrompts
                ELSE /\ u.content = modelPrompts[u.model]
                     /\ modelPrompts'[u.model] = << >>
                     /\ \A m \in Models \ {u.model} : modelPrompts'[m] = modelPrompts[m]
                     /\ prompt' = prompt
    ]_vars

\* a reply to one model was dispatched while the global prompt and the reply box
\* of another model held text, and both still hold it
C21_Witness ==
    /\ Len(messages) = 4
    /\ messages[3].role = "user"
    /\ messages[3].model # Undefined
    /\ modelPrompts[messages[3].model] = << >>
    /\ prompt = <<"Hi">>
    /\ \E m \in Models \ {messages[3].model} : modelPrompts[m] = <<"Re">>

\* chunks that hold nothing but a line the consumer cannot use: a data line whose
\* payload is cut before its end, and a line without the prefix
Unusable == {<<LineHead("Hel")>>, <<LineTail>>}

\* the chunk delivered last to an exchange was of that kind
AfterUnusable(e) == e.chunks # << >> /\ e.chunks[Len(e.chunks)] \in Unusable

AfterDone(e) == \E k \in 1..Len(e.chunks) : DoneLine \in Range(e.chunks[k])

\* C23: a chunk that begins with the line "data: [DONE]" changes no Turn, whatever
\* follows the line in the chunk, and the exchange goes on reading; an exchange
\* becomes complete only by the step in which the transport reports the end of the
\* stream; a delta line that arrives in a chunk after a [DONE] line was seen is
\* appended to the Turn of the exchange.
C23_DoneEndsOnlyItsChunk ==
    [][/\ \A i \in 1..Len(exchanges), pieces \in ChunkPieces :
            Chunk(i, pieces) =>
               /\ exchanges'[i].pc = "read"
               /\ pieces[1] = DoneLine => messages' = messages
               /\ \A d \in DeltaTexts :
                     (AfterDone(exchanges[i]) /\ pieces = <<DeltaLine(d)>>)
                     => messages'[exchanges[i].msg].content =
                           messages[exchanges[i].msg].content \o <<d>>
       /\ \A i \in 1..Len(exchanges) :
            (exchanges[i].pc # "complete" /\ exchanges'[i].pc = "complete") => ReadDone(i)
    ]_vars

\* the delta texts of the data lines that lie wholly in one chunk, up to a [DONE]
\* line of that chunk
RECURSIVE WholeLineDeltas(_)
WholeLineDeltas(lines) ==
    IF lines = << >> THEN << >>
    ELSE LET line == Head(lines)
         IN  IF startsWithData(line) /\ Tail(line) = <<DoneMark>> THEN << >>
             ELSE (IF startsWithData(line) /\ Parses(Tail(line))
                   THEN DeltaOf(Tail(line)) ELSE << >>) \o WholeLineDeltas(Tail(lines))

\* chunk by chunk, nothing being carried from one chunk to the next
RECURSIVE DeltasByChunk(_)
DeltasByChunk(chunks) ==
    IF chunks = << >> THEN << >>
    ELSE WholeLineDeltas(split(Concat(Head(chunks)))) \o DeltasByChunk(Tail(chunks))

\* the stream delivered to an exchange, its chunks joined
Joined(e) == split(Concat([k \in 1..Len(e.chunks) |-> Concat(e.chunks[k])]))

\* C24: when an exchange has ended, the content of its Turn is the concatenation of
\* the deltas of the lines that arrived whole inside one chunk; a line cut in two by
\* a chunk boundary adds nothing.
C24_SplitLineIsDropped ==
    \A i \in 1..Len(exchanges) :
        exchanges[i].pc \in {"complete", "failed"}
        => messages[exchanges[i].msg].content = DeltasByChunk(exchanges[i].chunks)

\* an exchange ended after a data line reached it in two chunks, and its Turn is
\* empty although the joined stream holds a whole delta line
C24_SplitLineSeen ==
    \E i \in 1..Len(exchanges) :
        /\ exchanges[i].chunks = <<<<LineHead("Hel")>>, <<LineTail>>>>
        /\ exchanges[i].pc = "complete"
        /\ messages[exchanges[i].msg].content = << >>
        /\ WholeLineDeltas(Joined(exchanges[i])) = <<"Hel">>

\* chunks that carry no text: a record with an empty delta, a data line whose
\* payload is cut, a line without the prefix
Textless == {<<EmptyDeltaLine>>, <<LineHead("Hel")>>, <<LineTail>>}

\* C25: an assistant Turn is appended with loading = true; its loading becomes false
\* only in a step that appends text to it or in which its exchange ends (complete or
\* failed); a chunk without text changes nothing.
C25_LoadingUntilTextOrEnd ==
    [][/\ \A t \in (Len(messages) + 1)..Len(messages') :
            messages'[t].role = "assistant" => messages'[t].loading
       /\ \A i \in 1..Len(exchanges) :
            LET t == exchanges[i].msg
            IN  (messages[t].loading /\ ~messages'[t].loading) =>
                   \/ messages'[t].content # messages[t].content
                   \/ (InFlight(exchanges[i]) /\ ~InFlight(exchanges'[i]))
       /\ \A i \in 1..Len(exchanges), pieces \in Textless :
            Chunk(i, pieces) => messages' = messages
    ]_vars

\* C26: in the state in which an accepted sendPrompt call returns, one exchange per
\* appended placeholder has been started and each is still waiting for its response;
\* every appended placeholder is loading, empty and without error; the exchanges
\* that were there before are where they were.
C26_DispatchReturnsBeforeAnyAnswer ==
    [][Len(messages') > Len(messages) =>
         LET N == Len(messages') - Len(messages) - 1
             E == Len(exchanges)
         IN  /\ N >= 1
             /\ Len(exchanges') = E + N
             /\ SubSeq(exchanges', 1, E) = exchanges
             /\ \A k \in 1..N :
                  LET e == exchanges'[E + k]
                      turn == messages'[e.msg]
                  IN  /\ e.msg = Len(messages) + 1 + k
                      /\ e.pc = "fetch"
                      /\ e.chunks = << >>
                      /\ e.issued.len = Len(messages')
                      /\ turn.loading
                      /\ turn.content = << >>
                      /\ turn.error = Undefined
    ]_vars

\* a dispatch to two models has returned: both its exchanges were started with both
\* placeholders in the log and wait for their responses, both placeholders loading
C26_Witness ==
    /\ Len(messages) = 3
    /\ Len(exchanges) = 2
    /\ \A k \in 1..2 : /\ exchanges[k].pc = "fetch"
                        /\ exchanges[k].issued.len = 3
                        /\ exchanges[k].issued.placeholders = {2, 3}
                        /\ messages[exchanges[k].msg].loading
                        /\ messages[exchanges[k].msg].content = << >>
                        /\ messages[exchanges[k].msg].error = Undefined

\* C27: the step in which the catalog response is taken in makes the selection the
\* returned list when the selection is empty, and leaves it as it is otherwise; the
\* step in which the catalog fetch fails changes neither the list nor the selection;
\* once it has failed both are empty, and a global sendPrompt call returns early
\* without touching the log.
C27_CatalogFetchDefaultsSelection ==
    [][/\ (catalogPc = "pending" /\ catalogPc' = "done") =>
            selectedModels' = IF Len(selectedModels) = 0 THEN availableModels'
                              ELSE selectedModels
       /\ (catalogPc = "pending" /\ catalogPc' = "failed") =>
            UNCHANGED <<availableModels, selectedModels>>
       /\ catalogPc = "failed" =>
            /\ availableModels = << >>
            /\ selectedModels = << >>
            /\ sendPrompt(Undefined) => (rejected' /\ UNCHANGED <<messages, exchanges, prompt>>)
    ]_vars

\* the catalog fetch failed and a global submit of "Hi" was turned away
C27_Witness ==
    /\ catalogPc = "failed"
    /\ rejected
    /\ prompt = <<"Hi">>
    /\ Len(messages) = 0

\* the characters of str before the first c, all of str when there is none
RECURSIVE Before(_, _)
Before(str, c) ==
    IF str = << >> \/ Head(str) = c THEN << >>
    ELSE <<Head(str)>> \o Before(Tail(str), c)

\* the characters of str after the last c, all of str when there is none
RECURSIVE AfterLast(_, _)
AfterLast(str, c) ==
    IF str = << >> \/ str[Len(str)] = c THEN << >>
    ELSE AfterLast(SubSeq(str, 1, Len(str) - 1), c) \o <<str[Len(str)]>>

\* provider as the statement has it: from the segment before the first '/'
ProviderOfSegment(seg) ==
    IF startsWith(seg, GptPrefix) THEN OpenAi
    ELSE IF startsWith(seg, ClaudePrefix) THEN Anthropic
    ELSE Before(seg, Colon)

\* the same with the two cases in which nothing would be left: an empty segment
\* gives way to the whole id, an empty result to what it was cut from
ProviderWithFallback(id) ==
    LET seg == Before(id, Slash)
        base == IF seg = << >> THEN id ELSE seg
    IN  IF startsWith(base, GptPrefix) THEN OpenAi
        ELSE IF startsWith(base, ClaudePrefix) THEN Anthropic
        ELSE IF Before(base, Colon) = << >> THEN base
        ELSE Before(base, Colon)

C29_DisplayNameIsLastSegment ==
    selectedModelData # Null =>
        LET id == selectedModelData.id
            name == selectedModelData.name
        IN  /\ name = IF Slash \in Range(id) /\ AfterLast(id, Slash) # << >>
                      THEN AfterLast(id, Slash) ELSE id
            /\ Colon \in Range(AfterLast(id, Slash)) => Colon \in Range(name)
            /\ id = OpenAiGpt4 => name = Gpt4
            /\ id = Gpt4 => name = Gpt4

\* a model with a path and a tag is selected: its name is the last segment, tag kept
C29_Witness ==
    /\ selectedModelData # Null
    /\ selectedModelData.id = <<Slash, "x", Colon>>
    /\ selectedModelData.name = <<"x", Colon>>

\* the log is a sequence of blocks: a user Turn, then one assistant Turn for each
\* of its targets, in the order of the target list, then the next user Turn or the
\* end of the log
InBlocks(log) ==
    /\ log # << >> => log[1].role = "user"
    /\ \A u \in 1..Len(log) :
          log[u].role = "user" =>
             LET ts == TargetsOf(log[u])
                 N == Len(ts)
             IN  /\ N >= 1
                 /\ Len(log) >= u + N
                 /\ \A k \in 1..N : /\ log[u + k].role = "assistant"
                                     /\ log[u + k].model = ts[k]
                 /\ Len(log) > u + N => log[u + N + 1].role = "user"

\* C30: after every step the log consists of whole blocks, a user Turn followed at
\* once by the placeholders of its targets in the order of the target list; the step
\* that appends a block appends all of it, changes no earlier Turn and moves no
\* exchange that was there before, and every exchange it starts finds the whole
\* block in the log.
C30_DispatchBlockIsContiguous ==
    [][/\ InBlocks(messages')
       /\ Len(messages') # Len(messages) =>
            /\ SubSeq(messages', 1, Len(messages)) = messages
            /\ SubSeq(exchanges', 1, Len(exchanges)) = exchanges
            /\ messages'[Len(messages) + 1].role = "user"
            /\ \A t \in (Len(messages) + 2)..Len(messages') :
                  messages'[t].role = "assistant"
            /\ \A k \in (Len(exchanges) + 1)..Len(exchanges') :
                  /\ exchanges'[k].issued.len = Len(messages')
                  /\ (Len(messages) + 2)..Len(messages') \subseteq
                        exchanges'[k].issued.placeholders
    ]_vars

\* a global dispatch to the selection B, A (not the order of the catalog) appended
\* its block in that order; B's exchange has streamed text, A's still waits
C30_Witness ==
    /\ Len(messages) = 3
    /\ messages[1].targetModels = <<"B", "A">>
    /\ messages[2].model = "B" /\ messages[3].model = "A"
    /\ messages[2].content # << >>
    /\ exchanges[1].pc = "read"
    /\ exchanges[2].pc = "fetch"

\* no exchange waits for a response or reads a stream
Quiescent == \A i \in 1..Len(exchanges) : ~InFlight(exchanges[i])

\* C31: with an endpoint that leaves no exchange waiting for ever, a Turn that is
\* loading is not loading some time later; and whenever no exchange is in flight no
\* Turn is loading, no model is busy and the global input is not held by a busy model.
C31_EveryTurnSettles ==
    /\ \A t \in 1..MaxTurns :
          (Len(messages) >= t /\ messages[t].loading)
             ~> (Len(messages) >= t /\ ~messages[t].loading)
    /\ [](Quiescent =>
            /\ \A t \in 1..Len(messages) : ~messages[t].loading
            /\ \A m \in Models : ~isModelLoading[m]
            /\ ~isGlobalLoading)

\* C32: in every state the model of an assistant Turn that is loading is busy.
C32_LoadingTurnKeepsModelBusy ==
    \A t \in 1..Len(messages) :
        (messages[t].role = "assistant" /\ messages[t].loading)
        => isModelLoading[messages[t].model]

\* of two exchanges for one model one has ended while the Turn of the other, still
\* in flight, is loading: the model is busy
C32_Witness ==
    \E i, j \in 1..Len(exchanges) :
        /\ i # j
        /\ exchanges[i].model = exchanges[j].model
        /\ exchanges[i].pc \in {"complete", "failed"}
        /\ InFlight(exchanges[j])
        /\ messages[exchanges[j].msg].loading
        /\ ~messages[exchanges[i].msg].loading
        /\ isModelLoading[exchanges[j].model]

\* C33: no step makes a Turn that is not loading loading again; no step changes an
\* error that is set; no step changes the error of the Turn of an exchange that has
\* completed.
C33_TurnFlagsAreMonotone ==
    [][/\ \A t \in 1..Len(messages) :
            /\ ~messages[t].loading => ~messages'[t].loading
            /\ messages[t].error # Undefined => messages'[t].error = messages[t].error
       /\ \A i \in 1..Len(exchanges) :
            exchanges[i].pc = "complete"
            => messages'[exchanges[i].msg].error = messages[exchanges[i].msg].error
    ]_vars

\* C34: with the inputs of the page enabled as the template has them, no two
\* exchanges for the same model are in flight in any state.
C34_OneExchangePerModelInFlight ==
    \A i, j \in 1..Len(exchanges) :
        (i # j /\ InFlight(exchanges[i]) /\ InFlight(exchanges[j]))
        => exchanges[i].model # exchanges[j].model

\* a model whose earlier exchange has ended was dispatched to again: the one
\* exchange it has in flight is the second
C34_Witness ==
    \E i, j \in 1..Len(exchanges) :
        /\ i < j
        /\ exchanges[i].model = exchanges[j].model
        /\ exchanges[i].pc = "complete"
        /\ exchanges[j].pc = "read"
        /\ isModelLoading[exchanges[j].model]

\* the assistant Turns of the model of an exchange that precede its placeholder
EarlierReplies(e) ==
    {t \in 1..(e.msg - 1) :
        messages[t].role = "assistant" /\ messages[t].model = e.model}

\* C35: with the inputs of the page enabled as the template has them, the history
\* an exchange sent upstream has the roles user, assistant, user, ..., user in
\* strict alternation, with one assistant entry for every earlier assistant Turn of
\* its model, those that failed with empty content included.
C35_HistoryAlternates ==
    \A i \in 1..Len(exchanges) :
        LET h == exchanges[i].history
        IN  /\ Len(h) = 2 * Cardinality(EarlierReplies(exchanges[i])) + 1
            /\ \A k \in 1..Len(h) :
                  h[k].role = IF k % 2 = 1 THEN "user" ELSE "assistant"

====
